---- MODULE Spec2Model ----
(***************************************************************************)
(* Model of the mdbook indexer preprocessor (src/mdbook_indexer/src/lib.rs) *)
(*                                                                         *)
(* A text (Rust String) is a sequence of characters, each character a      *)
(* one-character string.  A table (HashMap<String, Vec<String>>) is a      *)
(* function from names to sequences of chapter paths.  The book is the     *)
(* sequence of its items in the order for_each_mut visits them.            *)
(***************************************************************************)
EXTENDS Integers, Sequences, FiniteSets, TLC

VARIABLES
    book0,      \* run's parameter `book`: the tree as handed in (lib.rs:22)
    book,       \* `updated_book`, the clone that is mutated (lib.rs:23)
    tags,       \* `tags` table of collect_mentions_and_tags (lib.rs:43)
    mentions,   \* `mentions` table of collect_mentions_and_tags (lib.rs:42)
    i,          \* position of for_each_mut in the tree (lib.rs:45)
    pc,         \* position inside run (lib.rs:22-32)
    runs,       \* which invocation of run this is: "first" or "second"
    input,      \* the tree handed to the first invocation
    call,       \* a call of one of the pure functions, with its arguments
    ret         \* what that call returned, NoRet before it returns

vars == <<book0, book, tags, mentions, i, pc, runs, input, call, ret>>

----------------------------------------------------------------------------
(* Bounds of the model *)

MaxLen == 4     \* longest text handed to extract_prefix_items alone
MaxPages == 2   \* longest page list of a table handed to generate_index alone
MaxDocs == 2    \* most items of a book
MaxFrags == 3   \* most fragments the bodies of one book are made of, an
                \* item without a body counted as one fragment
MaxDocsTwice == 1   \* most items of a book that is run twice
MaxFragsTwice == 2  \* most fragments of a book that is run twice

----------------------------------------------------------------------------
(* Characters *)

\* char::is_whitespace, on the characters the model uses
is_whitespace(c) ==
    c \in {" ", "\n", "\t"}

\* char::is_ascii_punctuation: the ASCII punctuation characters.  The grave
\* accent, the 32nd of them, cannot be written in a TLA+ string; no text of
\* the model holds it.
is_ascii_punctuation(c) ==
    c \in {"!", "\"", "#", "$", "%", "&", "'", "(", ")", "*", "+", ",", "-",
           ".", "/", ":", ";", "<", "=", ">", "?", "@", "[", "\\", "]", "^",
           "_", "{", "|", "}", "~"}

\* is_separator, had the closure split on whitespace alone
is_separator_whitespace_only(c, prefix) ==
    is_whitespace(c)

\* The closure handed to split (lib.rs:85)
is_separator(c, prefix) ==
    is_whitespace(c) \/ (c # prefix /\ is_ascii_punctuation(c))

----------------------------------------------------------------------------
(* str::split, str::strip_prefix, str::replace *)

RECURSIVE separators(_, _, _, _)
\* The positions lo..hi of text that hold a separator, ascending
separators(text, prefix, lo, hi) ==
    IF lo > hi THEN <<>>
    ELSE IF lo = hi
         THEN (IF is_separator(text[lo], prefix) THEN <<lo>> ELSE <<>>)
         ELSE LET mid == (lo + hi) \div 2
              IN  separators(text, prefix, lo, mid)
                  \o separators(text, prefix, mid + 1, hi)

\* str::split (lib.rs:85): the words between the separators.  It yields the
\* empty words too: between two separators, before a leading and after a
\* trailing one, and one empty word for an empty text.
split(text, prefix) ==
    LET cuts == <<0>> \o separators(text, prefix, 1, Len(text))
                      \o <<Len(text) + 1>>
    IN  [j \in 1..(Len(cuts) - 1) |-> SubSeq(text, cuts[j] + 1, cuts[j + 1] - 1)]

\* Option<T>: None, or Some(x) holding x
None == <<>>
Some(x) == <<x>>

\* str::strip_prefix(char) (lib.rs:87): the word without its first character
\* when that character is the prefix, None otherwise
strip_prefix(word, prefix) ==
    IF Len(word) > 0 /\ word[1] = prefix THEN Some(Tail(word)) ELSE None

\* filter_map, had the filter on empty names been left out
filter_map_keeping_empty(words, prefix) ==
    LET kept(word) == strip_prefix(word, prefix) # None
        some == SelectSeq(words, kept)
    IN  [j \in 1..Len(some) |-> strip_prefix(some[j], prefix)[1]]

\* lib.rs:86-90: the stripped words that are not empty, in their order
filter_map(words, prefix) ==
    LET kept(word) ==
            LET trimmed == strip_prefix(word, prefix)
            IN  trimmed # None /\ trimmed[1] # <<>>
        some == SelectSeq(words, kept)
    IN  [j \in 1..Len(some) |-> strip_prefix(some[j], prefix)[1]]

\* lib.rs:84-92
extract_prefix_items(text, prefix) ==
    filter_map(split(text, prefix), prefix)

\* Whether `from` occurs in s at position k
matches_at(s, from, k) ==
    /\ k + Len(from) - 1 <= Len(s)
    /\ \A j \in 1..Len(from) : s[k + j - 1] = from[j]

RECURSIVE replaced(_, _, _)
\* Whether str::replace replaces the match at position m: its matches are
\* taken left to right and do not overlap, so a match is skipped exactly
\* when a replaced match before it reaches into it.
replaced(s, from, m) ==
    /\ matches_at(s, from, m)
    /\ \A g \in (m - Len(from) + 1)..(m - 1) : g < 1 \/ ~replaced(s, from, g)

RECURSIVE pieces(_, _, _, _, _, _)
\* What positions lo..hi of s become: `to` where a replaced match begins,
\* nothing inside a replaced match, the character itself elsewhere
pieces(s, from, to, starts, lo, hi) ==
    IF lo > hi THEN <<>>
    ELSE IF lo = hi
         THEN (IF lo \in starts THEN to
               ELSE IF \E g \in (lo - Len(from) + 1)..(lo - 1) : g \in starts
                    THEN <<>>
                    ELSE <<s[lo]>>)
         ELSE LET mid == (lo + hi) \div 2
              IN  pieces(s, from, to, starts, lo, mid)
                  \o pieces(s, from, to, starts, mid + 1, hi)

\* replace, had it been str::replacen(from, to, 1): the first match only
replace_first(s, from, to) ==
    LET hits == {m \in 1..Len(s) : matches_at(s, from, m)}
    IN  IF hits = {} THEN s
        ELSE LET m == CHOOSE x \in hits : \A y \in hits : x <= y
             IN  SubSeq(s, 1, m - 1) \o to \o SubSeq(s, m + Len(from), Len(s))

\* replace, had it left a text alone that already holds the link
replace_unless_linked(s, from, to) ==
    IF \E k \in 1..(Len(s) - Len(to) + 1) : SubSeq(s, k, k + Len(to) - 1) = to
    THEN s
    ELSE pieces(s, from, to, {m \in 1..Len(s) : replaced(s, from, m)}, 1, Len(s))

\* str::replace (lib.rs:66, lib.rs:75)
replace(s, from, to) ==
    pieces(s, from, to, {m \in 1..Len(s) : replaced(s, from, m)}, 1, Len(s))

----------------------------------------------------------------------------
(* Tables, chapters *)

\* HashMap::new() (lib.rs:42-43)
EmptyTable == <<>>

\* push, had the page been inserted at the head of the entry
push_front(table, key, page) ==
    IF key \in DOMAIN table
    THEN [table EXCEPT ![key] = <<page>> \o @]
    ELSE table @@ (key :> <<page>>)

\* table.entry(key).or_default().push(page) (lib.rs:69, lib.rs:78)
push(table, key, page) ==
    IF key \in DOMAIN table
    THEN [table EXCEPT ![key] = Append(@, page)]
    ELSE table @@ (key :> <<page>>)

\* The fixed paths and titles of the two index chapters (lib.rs:28-29) and
\* the index paths written into the links (lib.rs:65, lib.rs:74)
TagsPath == <<"t", "a", "g", "s", ".", "m", "d">>
MentionsPath == <<"m", "e", "n", "t", "i", "o", "n", "s", ".", "m", "d">>
TagsTitle == <<"T", "a", "g", "s">>
MentionsTitle == <<"M", "e", "n", "t", "i", "o", "n", "s">>

\* lib.rs:127-134: the chapter's path as a string, empty for a chapter
\* without a path
chapter_path(chapter) ==
    IF chapter.path = None THEN <<>> ELSE chapter.path[1]

\* format!("[#{}](tags.md#{})", tag, tag) (lib.rs:65)
tag_link(tag) ==
    <<"[", "#">> \o tag \o <<"]", "(">> \o TagsPath \o <<"#">> \o tag \o <<")">>

\* format!("[@{}](mentions.md#{})", mention, mention) (lib.rs:74)
mention_link(mention) ==
    <<"[", "@">> \o mention \o <<"]", "(">> \o MentionsPath \o <<"#">>
        \o mention \o <<")">>

RECURSIVE process_tags(_, _, _, _)
\* The loop of lib.rs:64-70 over the tags found before the loop began
process_tags(found, content, table, chapter) ==
    IF found = <<>> THEN [content |-> content, table |-> table]
    ELSE LET tag == Head(found)
         IN  process_tags(Tail(found),
                          replace(content, <<"#">> \o tag, tag_link(tag)),
                          push(table, tag, chapter_path(chapter)),
                          chapter)

RECURSIVE process_mentions(_, _, _, _)
\* The loop of lib.rs:73-79 over the mentions found before the loop began
process_mentions(found, content, table, chapter) ==
    IF found = <<>> THEN [content |-> content, table |-> table]
    ELSE LET mention == Head(found)
         IN  process_mentions(Tail(found),
                              replace(content, <<"@">> \o mention,
                                      mention_link(mention)),
                              push(table, mention, chapter_path(chapter)),
                              chapter)

\* lib.rs:56-82: the tags are extracted from the chapter's content, the
\* mentions from the content as the tag loop left it
process_chapter(chapter, mentions_, tags_) ==
    LET t == process_tags(extract_prefix_items(chapter.content, "#"),
                          chapter.content, tags_, chapter)
        m == process_mentions(extract_prefix_items(t.content, "@"),
                              t.content, mentions_, chapter)
    IN  [content |-> m.content, mentions |-> m.table, tags |-> t.table]

----------------------------------------------------------------------------
(* The index chapters *)

RECURSIVE join(_, _)
\* [String]::join (lib.rs:102)
join(list, sep) ==
    IF list = <<>> THEN <<>>
    ELSE IF Len(list) = 1 THEN list[1]
    ELSE list[1] \o sep \o join(Tail(list), sep)

\* format!("- [{}]({})", page, page) (lib.rs:100)
page_entry(page) ==
    <<"-", " ", "[">> \o page \o <<"]", "(">> \o page \o <<")">>

\* section, had the format string ended without the newline
section_unterminated(prefix, key, pages) ==
    <<"#", "#", " ">> \o prefix \o key \o <<"\n">>
        \o join([k \in 1..Len(pages) |-> page_entry(pages[k])], <<"\n">>)

\* The closure of lib.rs:97-104: one entry of the table as a section
section(prefix, key, pages) ==
    <<"#", "#", " ">> \o prefix \o key \o <<"\n">>
        \o join([k \in 1..Len(pages) |-> page_entry(pages[k])], <<"\n">>)
        \o <<"\n">>

RECURSIVE fold_sections(_, _, _, _)
\* The fold of lib.rs:105-108 over the entries in the order HashMap::iter
\* yields them
fold_sections(md, prefix, index, order) ==
    IF order = <<>> THEN md
    ELSE fold_sections(md \o section(prefix, Head(order), index[Head(order)]),
                       prefix, index, Tail(order))

\* lib.rs:94-109.  `order` is the order in which HashMap::iter yields the
\* keys, which the HashMap leaves open.
generate_index(title, prefix, index, order) ==
    fold_sections(<<"#", " ">> \o title \o <<"\n", "\n">>, prefix, index, order)

RECURSIVE Perms(_)
\* The orders HashMap::iter may yield the keys S in
Perms(S) ==
    IF S = {} THEN {<<>>}
    ELSE UNION {{<<x>> \o p : p \in Perms(S \ {x})} : x \in S}

\* Chapter::new(path, content, PathBuf::from(path), Vec::new()) (lib.rs:119-124)
Chapter_new(name, content, path) ==
    [kind |-> "Chapter", name |-> name, content |-> content, path |-> Some(path)]

\* add_index_chapter, had the chapter been inserted at the head of the book
add_index_chapter_first(book_, path, title, prefix, index, order) ==
    <<Chapter_new(path, generate_index(title, prefix, index, order), path)>> \o book_

\* lib.rs:111-125
add_index_chapter(book_, path, title, prefix, index, order) ==
    Append(book_, Chapter_new(path, generate_index(title, prefix, index, order), path))

----------------------------------------------------------------------------
(* The inputs *)

\* The characters of the texts handed to extract_prefix_items alone
Chars == {"a", "b", "#", "@", " ", ","}

\* The texts of the tokenizer's edge cases: #tag, and ##tag and #tag#
EdgeTexts ==
    {<<"#", "t", "a", "g", ",">>, <<"#", "#", "t", "a", "g">>,
     <<"#", "t", "a", "g", "#">>}

Texts ==
    UNION {[1..n -> Chars] : n \in 0..MaxLen} \cup EdgeTexts

\* The pieces the chapter bodies of a book are made of
Fragments ==
    {<<"#", "a">>, <<"#", "a", "b">>, <<"@", "b">>, <<"#">>, <<"@">>, <<" ">>}

Digits == <<"1", "2", "3", "4", "5", "6", "7", "8", "9">>

\* The path of the k-th item of a book: 1.md, 2.md, ...
PathOf(k) == <<Digits[k], ".", "m", "d">>

\* BookItem::Separator, which for_each_mut visits and the closure skips
Separator == [kind |-> "Separator"]

\* A draft chapter: no path and no content
Draft(k) ==
    [kind |-> "Chapter", name |-> PathOf(k), content |-> <<>>, path |-> None]

\* What an item of a book is, how many fragments its body is made of and
\* how many it counts as
Shapes(maxFrags) ==
    {[kind |-> "Separator", frags |-> 0, size |-> 1],
     [kind |-> "Draft", frags |-> 0, size |-> 1]}
        \cup {[kind |-> "Chapter", frags |-> c, size |-> c] : c \in 0..maxFrags}

RECURSIVE size_of(_, _)
\* What the first k items count as
size_of(shape, k) ==
    IF k = 0 THEN 0 ELSE size_of(shape, k - 1) + shape[k].size

RECURSIVE frags_before(_, _)
\* The number of fragments of the items before the k-th
frags_before(shape, k) ==
    IF k <= 1 THEN 0
    ELSE frags_before(shape, k - 1) + shape[k - 1].frags

RECURSIVE concat(_, _, _)
\* The fragments fr[lo..hi], one after the other
concat(fr, lo, hi) ==
    IF lo > hi THEN <<>> ELSE fr[lo] \o concat(fr, lo + 1, hi)

\* The book of the given shape whose bodies are made of the fragments fr
BookOf(shape, fr) ==
    [k \in 1..Len(shape) |->
        CASE shape[k].kind = "Separator" -> Separator
          [] shape[k].kind = "Draft" -> Draft(k)
          [] OTHER ->
                Chapter_new(PathOf(k),
                            concat(fr, frags_before(shape, k) + 1,
                                   frags_before(shape, k + 1)),
                            PathOf(k))]

\* The document of the worked scenario: chapter1.md
ScenarioPath == <<"c", "h", "a", "p", "t", "e", "r", "1", ".", "m", "d">>
ScenarioBody ==
    <<"S", "e", "e", " ", "#", "a", "l", "p", "h", "a", " ", "a",
    "n", "d", " ", "@", "b", "o", "b", ",", " ", "a", "l", "s", "o",
    " ", "#", "a", "l", "p", "h", "a", " ", "a", "g", "a", "i", "n",
    ".">>

ScenarioBook == <<Chapter_new(ScenarioPath, ScenarioBody, ScenarioPath)>>

\* The tree b is one run may be handed: at most maxDocs items, their bodies
\* made of at most maxFrags fragments in all, or the scenario's book
IsBook(b, maxDocs, maxFrags) ==
    \/ b = ScenarioBook
    \/ \E n \in 0..maxDocs : \E shape \in [1..n -> Shapes(maxFrags)] :
          /\ size_of(shape, n) <= maxFrags
          /\ \E fr \in [1..frags_before(shape, n + 1) -> Fragments] :
                b = BookOf(shape, fr)

\* The names and pages of the tables handed to generate_index alone
IndexNames == {<<"x">>, <<"y">>}
IndexPages == {<<"a", ".", "m", "d">>, <<"b", ".", "m", "d">>}

\* Every entry of a table the program builds holds at least one page: an
\* entry is created by the push of lib.rs:69 or lib.rs:78
PageLists ==
    UNION {[1..n -> IndexPages] : n \in 1..MaxPages}

Tables ==
    UNION {[K -> PageLists] : K \in SUBSET IndexNames}

NoCall == [fn |-> "none"]
NoRet == [done |-> FALSE]

----------------------------------------------------------------------------
(* The run of the preprocessor *)

\* run is entered with a tree (lib.rs:22-23, lib.rs:42-43)
Entered(maxDocs, maxFrags) ==
    /\ IsBook(book0, maxDocs, maxFrags)
    /\ book = book0
    /\ input = book0
    /\ tags = EmptyTable
    /\ mentions = EmptyTable
    /\ i = 1
    /\ pc = "sweep"
    /\ runs = "first"
    /\ call = NoCall
    /\ ret = NoRet

Init == Entered(MaxDocs, MaxFrags)

\* lib.rs:45-51, one step of for_each_mut on a chapter: process_chapter, and
\* its result stored as the chapter's content
VisitChapter ==
    /\ pc = "sweep"
    /\ i <= Len(book)
    /\ book[i].kind = "Chapter"
    /\ LET r == process_chapter(book[i], mentions, tags)
       IN  /\ book' = [book EXCEPT ![i].content = r.content]
           /\ mentions' = r.mentions
           /\ tags' = r.tags
    /\ i' = i + 1
    /\ UNCHANGED <<book0, pc, runs, input, call, ret>>

\* lib.rs:46, one step of for_each_mut on an item that is no chapter
VisitOther ==
    /\ pc = "sweep"
    /\ i <= Len(book)
    /\ book[i].kind # "Chapter"
    /\ i' = i + 1
    /\ UNCHANGED <<book0, book, tags, mentions, pc, runs, input, call, ret>>

\* lib.rs:53 and lib.rs:28: the sweep is over, the tags index is appended
AddTagsIndex ==
    /\ pc = "sweep"
    /\ i > Len(book)
    /\ \E order \in Perms(DOMAIN tags) :
          book' = add_index_chapter(book, TagsPath, TagsTitle, <<"#">>, tags, order)
    /\ pc' = "mentions_index"
    /\ UNCHANGED <<book0, tags, mentions, i, runs, input, call, ret>>

\* lib.rs:29 and lib.rs:31: the mentions index is appended and run returns
AddMentionsIndex ==
    /\ pc = "mentions_index"
    /\ \E order \in Perms(DOMAIN mentions) :
          book' = add_index_chapter(book, MentionsPath, MentionsTitle, <<"@">>,
                                    mentions, order)
    /\ pc' = "done"
    /\ UNCHANGED <<book0, tags, mentions, i, runs, input, call, ret>>

\* The host hands the tree a first run returned to a second run
Rerun ==
    /\ pc = "done"
    /\ runs = "first"
    /\ book0' = book
    /\ book' = book
    /\ tags' = EmptyTable
    /\ mentions' = EmptyTable
    /\ i' = 1
    /\ pc' = "sweep"
    /\ runs' = "second"
    /\ UNCHANGED <<input, call, ret>>

Next ==
    \/ VisitChapter
    \/ VisitOther
    \/ AddTagsIndex
    \/ AddMentionsIndex

Spec == Init /\ [][Next]_vars

NextTwice ==
    \/ Next
    \/ Rerun

InitTwice == Entered(MaxDocsTwice, MaxFragsTwice)

SpecTwice == InitTwice /\ [][NextTwice]_vars

----------------------------------------------------------------------------
(* The pure functions called alone *)

InitFn ==
    /\ \/ \E t \in Texts, c \in {"#", "@"} :
             call = [fn |-> "extract_prefix_items", text |-> t, prefix |-> c]
       \/ \E a \in {<<TagsTitle, <<"#">>>>, <<MentionsTitle, <<"@">>>>}, t \in Tables :
             call = [fn |-> "generate_index", title |-> a[1], prefix |-> a[2],
                     index |-> t]
    /\ ret = NoRet
    /\ book0 = <<>>
    /\ book = <<>>
    /\ input = <<>>
    /\ tags = EmptyTable
    /\ mentions = EmptyTable
    /\ i = 1
    /\ pc = "idle"
    /\ runs = "first"

CallExtract ==
    /\ call.fn = "extract_prefix_items"
    /\ ~ret.done
    /\ ret' = [done |-> TRUE, val |-> extract_prefix_items(call.text, call.prefix)]
    /\ UNCHANGED <<book0, book, tags, mentions, i, pc, runs, input, call>>

CallGenerateIndex ==
    /\ call.fn = "generate_index"
    /\ ~ret.done
    /\ \E order \in Perms(DOMAIN call.index) :
          ret' = [done |-> TRUE,
                  val |-> generate_index(call.title, call.prefix, call.index, order)]
    /\ UNCHANGED <<book0, book, tags, mentions, i, pc, runs, input, call>>

NextFn ==
    \/ CallExtract
    \/ CallGenerateIndex

SpecFn == InitFn /\ [][NextFn]_vars

----------------------------------------------------------------------------
(* What the claims speak of *)

\* How often x occurs in the sequence q
Count(q, x) ==
    Cardinality({k \in 1..Len(q) : q[k] = x})

\* Whether part occurs in text as a substring
Occurs(part, text) ==
    \E k \in 1..(Len(text) - Len(part) + 1) : SubSeq(text, k, k + Len(part) - 1) = part

\* The extract_prefix_items call that has returned, if any
Extracted ==
    call.fn = "extract_prefix_items" /\ ret.done

\* The generate_index call that has returned, if any
Rendered ==
    call.fn = "generate_index" /\ ret.done

\* The words of the text that begin with exactly one prefix character and
\* go on after it, without that character
SinglePrefixed(text, prefix) ==
    LET words == split(text, prefix)
        one(w) == Len(w) >= 2 /\ w[1] = prefix /\ w[2] # prefix
        some == SelectSeq(words, one)
    IN  [j \in 1..Len(some) |-> Tail(some[j])]

\* C3: extract_prefix_items returns a name exactly for the words that start
\* with exactly one prefix character and go on after it, so no returned
\* name begins or ends with the prefix character.
C3_ExactlyOnePrefix ==
    Extracted =>
        /\ ret.val = SinglePrefixed(call.text, call.prefix)
        /\ \A j \in 1..Len(ret.val) :
              /\ ret.val[j][1] # call.prefix
              /\ ret.val[j][Len(ret.val[j])] # call.prefix

Tag == <<"t", "a", "g">>

\* C4: every name extract_prefix_items returns is non-empty and holds no
\* whitespace and no ASCII punctuation other than the prefix character; a
\* bare prefix character yields no name, and #tag, yields the name tag.
C4_NamesWellFormed ==
    Extracted =>
        /\ \A j \in 1..Len(ret.val) :
              /\ ret.val[j] # <<>>
              /\ \A k \in 1..Len(ret.val[j]) :
                    /\ ~is_whitespace(ret.val[j][k])
                    /\ is_ascii_punctuation(ret.val[j][k])
                          => ret.val[j][k] = call.prefix
        /\ call.text = <<call.prefix>> => ret.val = <<>>
        /\ (call.text = <<"#">> \o Tag \o <<",">> /\ call.prefix = "#")
              => ret.val = <<Tag>>

\* C4's case: #tag, has been tokenized for tags and the name tag returned
C4_Witness ==
    /\ Extracted
    /\ call.text = <<"#">> \o Tag \o <<",">>
    /\ call.prefix = "#"
    /\ ret.val = <<Tag>>

RECURSIVE Lines(_, _)
\* One line "- [id](id)" and a newline for each page of the list, in order
Lines(pages, k) ==
    IF k > Len(pages) THEN <<>>
    ELSE <<"-", " ", "[">> \o pages[k] \o <<"]", "(">> \o pages[k] \o <<")", "\n">>
         \o Lines(pages, k + 1)

RECURSIVE Sections(_, _, _)
\* The heading line "## <prefix><name>" and the lines of each entry, in the
\* given order of the names
Sections(prefix, index, order) ==
    IF order = <<>> THEN <<>>
    ELSE <<"#", "#", " ">> \o prefix \o Head(order) \o <<"\n">>
         \o Lines(index[Head(order)], 1)
         \o Sections(prefix, index, Tail(order))

\* The index document of a table under a title, its entries in the given order
IndexBody(title, prefix, index, order) ==
    <<"#", " ">> \o title \o <<"\n", "\n">> \o Sections(prefix, index, order)

AMd == <<"a", ".", "m", "d">>
BMd == <<"b", ".", "m", "d">>

\* The body "# Tags\n\n## #x\n- [a.md](a.md)\n- [b.md](b.md)\n"
TagsOfX ==
    <<"#", " ", "T", "a", "g", "s", "\n", "\n", "#", "#", " ", "#", "x", "\n",
      "-", " ", "[", "a", ".", "m", "d", "]", "(", "a", ".", "m", "d", ")", "\n",
      "-", " ", "[", "b", ".", "m", "d", "]", "(", "b", ".", "m", "d", ")", "\n">>

\* C5: generate_index returns the title heading and then, for each entry in
\* some order, its section: the heading of the name and one line per page
\* in stored order, duplicates kept.  The table {x: [a.md, b.md]} under
\* Tags gives the scenario's body, an empty table the title heading alone.
C5_IndexRendering ==
    Rendered =>
        /\ \E order \in Perms(DOMAIN call.index) :
              ret.val = IndexBody(call.title, call.prefix, call.index, order)
        /\ (call.title = TagsTitle /\ call.prefix = <<"#">>
               /\ call.index = (<<"x">> :> <<AMd, BMd>>))
              => ret.val = TagsOfX
        /\ call.index = EmptyTable
              => ret.val = <<"#", " ">> \o call.title \o <<"\n", "\n">>

\* C5's case: the table {x: [a.md, b.md]} has been rendered under Tags
C5_Witness ==
    /\ Rendered
    /\ call.title = TagsTitle
    /\ call.index = (<<"x">> :> <<AMd, BMd>>)
    /\ ret.val = TagsOfX

----------------------------------------------------------------------------
(* The documents of a run *)

\* Whether a marker of the given prefix begins at position p of the text:
\* a word begins there with the prefix character and goes on after it
MarkerAt(text, prefix, p) ==
    /\ p < Len(text)
    /\ text[p] = prefix
    /\ p = 1 \/ is_separator(text[p - 1], prefix)
    /\ ~is_separator(text[p + 1], prefix)

\* Whether the text holds a tag or a mention
HasMarker(text) ==
    \E prefix \in {"#", "@"}, p \in 1..Len(text) : MarkerAt(text, prefix, p)

\* The documents of the tree handed in: its chapters that have a path
Documents ==
    {k \in 1..Len(book0) : book0[k].kind = "Chapter" /\ book0[k].path # None}

\* Whether for_each_mut has passed the k-th item
Processed(k) ==
    k < i

\* The pages listed under a name, none when the table has no such entry
Pages(table, name) ==
    IF name \in DOMAIN table THEN table[name] ELSE <<>>

\* The names in a sequence of names
Names(found) ==
    {found[j] : j \in 1..Len(found)}

\* Whether s is a proper prefix of l
ProperPrefix(s, l) ==
    Len(s) < Len(l) /\ SubSeq(l, 1, Len(s)) = s

\* The position after the word that begins at p
WordEnd(text, prefix, p) ==
    LET ends == {q \in (p + 1)..(Len(text) + 1) :
                    q = Len(text) + 1 \/ is_separator(text[q], prefix)}
    IN  CHOOSE q \in ends : \A r \in ends : q <= r

\* The link [<prefix><name>](<path>#<name>)
Link(prefix, path, name) ==
    <<"[", prefix>> \o name \o <<"]", "(">> \o path \o <<"#">> \o name \o <<")">>

RECURSIVE Flatten(_, _, _)
\* The texts q[lo..hi], one after the other
Flatten(q, lo, hi) ==
    IF lo > hi THEN <<>>
    ELSE IF lo = hi THEN q[lo]
    ELSE LET mid == (lo + hi) \div 2
         IN  Flatten(q, lo, mid) \o Flatten(q, mid + 1, hi)

\* The text with each marker, where it stands, turned into one link
Linked(text) ==
    LET name(prefix, p) == SubSeq(text, p + 1, WordEnd(text, prefix, p) - 1)
        inside(prefix, p) ==
            \E q \in 1..(p - 1) :
                MarkerAt(text, prefix, q) /\ p < WordEnd(text, prefix, q)
        piece(p) ==
            IF MarkerAt(text, "#", p) THEN Link("#", TagsPath, name("#", p))
            ELSE IF MarkerAt(text, "@", p)
                 THEN Link("@", MentionsPath, name("@", p))
            ELSE IF inside("#", p) \/ inside("@", p) THEN <<>>
            ELSE <<text[p]>>
    IN  Flatten([p \in 1..Len(text) |-> piece(p)], 1, Len(text))

\* Whether the markers of the text stand apart: a prefix character stands
\* only at the head of a word, and no name is the beginning of another
Apart(text) ==
    /\ \A p \in 1..Len(text) :
          text[p] \in {"#", "@"} =>
              /\ p = 1 \/ is_separator(text[p - 1], text[p])
              /\ p < Len(text) => text[p + 1] \notin {"#", "@"}
    /\ \A prefix \in {"#", "@"} :
          \A s, l \in Names(extract_prefix_items(text, prefix)) : ~ProperPrefix(s, l)

\* The body the scenario expects of chapter1.md
ScenarioRewritten ==
    SubSeq(ScenarioBody, 1, 4) \o Link("#", TagsPath, SubSeq(ScenarioBody, 6, 10))
        \o SubSeq(ScenarioBody, 11, 15)
        \o Link("@", MentionsPath, SubSeq(ScenarioBody, 17, 19))
        \o SubSeq(ScenarioBody, 20, 26)
        \o Link("#", TagsPath, SubSeq(ScenarioBody, 28, 32))
        \o SubSeq(ScenarioBody, 33, 39)

\* C1: once a document is processed, each occurrence of a marker in its
\* original body is replaced by exactly one link, also when the marker
\* occurs several times; chapter1.md of the scenario gets the body with two
\* single links for #alpha and one for @bob.  Stated of the documents whose
\* markers stand apart.
C1_EveryOccurrenceOneLink ==
    \A k \in Documents :
        (Processed(k) /\ Apart(book0[k].content)) =>
            /\ book[k].content = Linked(book0[k].content)
            /\ book0[k].content = ScenarioBody
                  => book[k].content = ScenarioRewritten

\* C2: for every processed document, both tables and every name, the
\* document's path is listed under the name as often as the tokenizer finds
\* the marker in the document's original body.
C2_CountsMatchOriginal ==
    \A k \in Documents :
        Processed(k) =>
            \A t \in 1..2 :
                LET table == IF t = 1 THEN tags ELSE mentions
                    prefix == IF t = 1 THEN "#" ELSE "@"
                    found == extract_prefix_items(book0[k].content, prefix)
                IN  \A name \in DOMAIN table \cup Names(found) :
                        Count(Pages(table, name), chapter_path(book0[k]))
                            = Count(found, name)

\* Whether two items are the same document: the same kind and, for
\* chapters, the same name and path
SameDocument(a, b) ==
    /\ a.kind = b.kind
    /\ a.kind = "Chapter" => (a.name = b.name /\ a.path = b.path)

\* Whether the item is the index chapter of the path, title and table
IsIndexOf(item, path, title, prefix, index) ==
    \E order \in Perms(DOMAIN index) :
        item = Chapter_new(path, generate_index(title, prefix, index, order), path)

\* C6: a run returns the documents handed in, same identifiers in the same
\* order, and after them tags.md and then mentions.md, whose bodies render
\* the final tables.  The two are appended only once every document has
\* been processed and are not visited in the run; an empty tree yields the
\* two title headings alone.
C6_RunAppendsTwoIndexes ==
    LET n == Len(book0)
    IN  /\ \A k \in 1..n : SameDocument(book[k], book0[k])
        /\ i <= n + 1
        /\ pc = "sweep" => Len(book) = n
        /\ pc = "mentions_index" =>
              /\ i = n + 1
              /\ Len(book) = n + 1
              /\ IsIndexOf(book[n + 1], TagsPath, TagsTitle, <<"#">>, tags)
        /\ pc = "done" =>
              /\ i = n + 1
              /\ Len(book) = n + 2
              /\ IsIndexOf(book[n + 1], TagsPath, TagsTitle, <<"#">>, tags)
              /\ IsIndexOf(book[n + 2], MentionsPath, MentionsTitle, <<"@">>,
                           mentions)
              /\ n = 0 =>
                    /\ book[1].content = <<"#", " ">> \o TagsTitle \o <<"\n", "\n">>
                    /\ book[2].content
                          = <<"#", " ">> \o MentionsTitle \o <<"\n", "\n">>

\* C6's case: a run over two documents with tags and mentions has returned
C6_Witness ==
    /\ pc = "done"
    /\ Len(book0) = 2
    /\ Documents = {1, 2}
    /\ tags # EmptyTable
    /\ mentions # EmptyTable

\* The documents of the second run that were handed to the first one
Originals ==
    {k \in 1..Len(input) : input[k].kind = "Chapter"}

\* C7: the pipeline is not idempotent.  In a second run over the output of
\* a first one, every document whose original body holds a tag or a mention
\* comes out different from (longer than) what the first run made of it; a
\* body the second run leaves unchanged holds no marker.
C7_NotIdempotent ==
    runs = "second" =>
        \A k \in Originals :
            Processed(k) =>
                /\ HasMarker(input[k].content)
                      => /\ book[k].content # book0[k].content
                         /\ Len(book[k].content) > Len(book0[k].content)
                /\ book[k].content = book0[k].content
                      => /\ ~HasMarker(input[k].content)
                         /\ ~HasMarker(book0[k].content)

\* C7's case: the second run has processed a document that held a marker
C7_Witness ==
    /\ runs = "second"
    /\ pc = "done"
    /\ \E k \in Originals :
          /\ HasMarker(input[k].content)
          /\ Occurs(<<"[", "[", "#", "a", "]">>, book[k].content)

\* C8: when a document holds two tags of which one name is a proper prefix
\* of the other, in either order, its rewritten body holds no intact link
\* of the longer name, and the tags table lists the document under both.
C8_SubstringCollision ==
    \A k \in Documents :
        Processed(k) =>
            LET found == Names(extract_prefix_items(book0[k].content, "#"))
            IN  \A s, l \in found :
                    ProperPrefix(s, l) =>
                        /\ ~Occurs(Link("#", TagsPath, l), book[k].content)
                        /\ Count(Pages(tags, s), chapter_path(book0[k])) > 0
                        /\ Count(Pages(tags, l), chapter_path(book0[k])) > 0

\* C8's case: a document holding #ab and then #a has been processed
C8_Witness ==
    \E k \in Documents :
        /\ Processed(k)
        /\ book0[k].content = <<"#", "a", "b", " ", "#", "a">>
        /\ Occurs(<<"[", "[", "#", "a", "]">>, book[k].content)

\* The position in the tree of the document with the given path
DocIndex(path) ==
    CHOOSE k \in Documents : book0[k].path = Some(path)

\* C9: at every point of the sweep and at its end, every entry of a table
\* is non-empty, lists only documents already processed and lists them in
\* the order they were processed; every document is processed once (its
\* path is listed under a tag as often as the tag occurs in it), and a
\* document not yet processed is as it was handed in.
C9_EntriesFollowSweep ==
    /\ \A t \in 1..2 :
          LET table == IF t = 1 THEN tags ELSE mentions
          IN  \A name \in DOMAIN table :
                  /\ table[name] # <<>>
                  /\ \A p \in 1..Len(table[name]) :
                        \E k \in Documents :
                            Processed(k) /\ book0[k].path = Some(table[name][p])
                  /\ \A p, q \in 1..Len(table[name]) :
                        p < q => DocIndex(table[name][p]) <= DocIndex(table[name][q])
    /\ \A k \in Documents :
          /\ \A name \in DOMAIN tags
                    \cup Names(extract_prefix_items(book0[k].content, "#")) :
                Count(Pages(tags, name), chapter_path(book0[k]))
                    = IF Processed(k)
                      THEN Count(extract_prefix_items(book0[k].content, "#"), name)
                      ELSE 0
          /\ ~Processed(k) => book[k] = book0[k]

\* C9's case: the sweep is over and a tag's entry lists two documents
C9_Witness ==
    /\ pc = "done"
    /\ \E name \in DOMAIN tags : tags[name] = <<PathOf(1), PathOf(2)>>

\* A document the tokenizer finds no marker in is as it was handed in and
\* is listed in no table
UnmarkedUntouched ==
    \A k \in 1..Len(book0) :
        (book0[k].kind = "Chapter" /\ ~HasMarker(book0[k].content)) =>
            /\ book[k] = book0[k]
            /\ \A t \in 1..2 :
                  LET table == IF t = 1 THEN tags ELSE mentions
                  IN  \A name \in DOMAIN table :
                          Count(table[name], chapter_path(book0[k])) = 0

\* A step changes the body of no document but the one being processed
OthersUntouched ==
    \A k \in 1..Len(book) : k # i => book'[k] = book[k]

\* C10: a document in whose body the tokenizer finds no tag and no mention
\* leaves the run with its body as handed in and adds no entry to either
\* table, and processing one document changes the body of no other.
C10_Frame ==
    []UnmarkedUntouched /\ [][OthersUntouched]_vars

\* C10's case: a run has returned a document that only holds a dangling #
\* as it was, and has rewritten another
C10_Witness ==
    /\ pc = "done"
    /\ \E k, j \in Documents :
          /\ book0[k].content = <<"#">>
          /\ book[k].content = <<"#">>
          /\ book[j].content # book0[j].content

====
